---- MODULE Spec2Model ----
(***************************************************************************)
(* DubCheck API (src/backend/server.py): a credit-metered fact-checking    *)
(* service.  Every request is served by its own worker; the workers share  *)
(* three MongoDB collections (users, sessions, fact_checks).  Each atomic   *)
(* step of the model is one database operation of a handler together with  *)
(* the local computation around it, or one call to an external provider.   *)
(*                                                                         *)
(* Conventions: Python None is the empty tuple <<>> and a present value v  *)
(* is <<v>> wherever a variable may hold None; uuid4 values are natural    *)
(* numbers drawn from a counter; datetimes are whole days; a float is an   *)
(* exact fraction.                                                         *)
(***************************************************************************)
EXTENDS Integers, Sequences, FiniteSets, TLC

(* ------------------------------ bounds -------------------------------- *)

\* number of concurrent workers (request slots)
NumReq == 2
\* the clock stops advancing here (days)
MaxTime == 14
\* documents each collection may hold
MaxUsers == 2
MaxSessions == 2
MaxFactChecks == 1
\* fact-checks added to a stored history
MaxCharges == 2

(* -------------------------- program constants ------------------------- *)

\* timedelta(days=7)
SevenDays == 7
\* credits of a newly registered user
InitialCredits == 30

None == <<>>
Some(v) == <<v>>
IsNone(o) == o = <<>>
Val(o) == o[1]

\* dict.get(key, default) on a record
Get(d, k, default) == IF k \in DOMAIN d THEN d[k] ELSE default

\* PLANS: weekly_credits per plan name (the other entitlements are metadata)
PLANS ==
  [ free           |-> [plan_name |-> "free",           weekly_credits |-> 30],
    pro            |-> [plan_name |-> "pro",            weekly_credits |-> 100],
    premium        |-> [plan_name |-> "premium",        weekly_credits |-> 500],
    family_pro     |-> [plan_name |-> "family_pro",     weekly_credits |-> 100],
    family_premium |-> [plan_name |-> "family_premium", weekly_credits |-> 500] ]

\* PLANS.get(name, PLANS["free"])
PlanOf(name) == Get(PLANS, name, PLANS["free"])

(* ------------------------------- texts -------------------------------- *)

\* A text is held in the state by name; Chars gives its characters.
\* "wN" is N one-letter words joined by single blanks.
WordsText(n) == [i \in 1..(2 * n - 1) |-> IF i % 2 = 1 THEN "a" ELSE " "]

Chars(text) ==
  CASE text = ""      -> <<>>
    [] text = "blank" -> <<" ", " ">>
    [] text = "ragged" -> <<" ", "a", " ", " ", "a", "\n", "a", "\t", " ">>
    [] text = "w1"    -> WordsText(1)
    [] text = "w10"   -> WordsText(10)
    [] text = "w50"   -> WordsText(50)
    [] text = "w51"   -> WordsText(51)
    [] text = "w200"  -> WordsText(200)
    [] text = "w201"  -> WordsText(201)
    [] text = "w500"  -> WordsText(500)
    [] text = "w501"  -> WordsText(501)
    [] text = "w600"  -> WordsText(600)

\* the number of words each named text was built with
WordsIn(text) ==
  CASE text = ""      -> 0
    [] text = "blank" -> 0
    [] text = "ragged" -> 3
    [] text = "w1"    -> 1
    [] text = "w10"   -> 10
    [] text = "w50"   -> 50
    [] text = "w51"   -> 51
    [] text = "w200"  -> 200
    [] text = "w201"  -> 201
    [] text = "w500"  -> 500
    [] text = "w501"  -> 501
    [] text = "w600"  -> 600

IsSpace(c) == c \in {" ", "\n", "\t"}

\* len(s.split()): the number of maximal runs of non-whitespace characters
SplitLen(s) ==
  Cardinality({i \in 1..Len(s) : ~IsSpace(s[i]) /\ (i = 1 \/ IsSpace(s[i - 1]))})

\* lines 81-88
CreditsFor(word_count) ==
  IF word_count <= 50 THEN 1
  ELSE IF word_count <= 200 THEN 2
  ELSE IF word_count <= 500 THEN 3
  ELSE 5

CreditsFor_OffByOne(word_count) ==
  IF word_count < 50 THEN 1
  ELSE IF word_count <= 200 THEN 2
  ELSE IF word_count <= 500 THEN 3
  ELSE 5

calculate_credits_needed_OffByOne(text) == CreditsFor_OffByOne(SplitLen(Chars(text)))

\* calculate_credits_needed(text): word_count = len(text.split())
calculate_credits_needed(text) == CreditsFor(SplitLen(Chars(text)))

(* ------------------------- character sequences ------------------------ *)

\* A string that the code takes apart is a sequence of one-character strings.
UpperCase == <<"A","B","C","D","E","F","G","H","I","J","K","L","M",
               "N","O","P","Q","R","S","T","U","V","W","X","Y","Z">>
LowerCase == <<"a","b","c","d","e","f","g","h","i","j","k","l","m",
               "n","o","p","q","r","s","t","u","v","w","x","y","z">>

\* str.lower(), character by character
LowerChar(c) ==
  IF \E i \in 1..26 : UpperCase[i] = c
  THEN LowerCase[CHOOSE i \in 1..26 : UpperCase[i] = c]
  ELSE c

Lower(s) == [i \in 1..Len(s) |-> LowerChar(s[i])]

\* sub in s
Contains(s, sub) ==
  \E i \in 0..(Len(s) - Len(sub)) : \A j \in 1..Len(sub) : s[i + j] = sub[j]

\* the positions of the separator ch in s
SepAt(s, ch) == {i \in 1..Len(s) : s[i] = ch}

\* len(s.split(ch))
SplitCount(s, ch) == Cardinality(SepAt(s, ch)) + 1

Min(S) == CHOOSE i \in S : \A j \in S : i <= j
Max(S) == CHOOSE i \in S : \A j \in S : i >= j

FieldFrom(s, first, later) ==
  SubSeq(s, first + 1, IF later = {} THEN Len(s) ELSE Min(later) - 1)
FieldAfter(s, seps, first) == FieldFrom(s, first, {i \in seps : i > first})

\* s.split(ch)[1]: the field between the first and the second separator
SplitSecond(s, ch) == FieldAfter(s, SepAt(s, ch), Min(SepAt(s, ch)))

StripTo(s, keep) == IF keep = {} THEN <<>> ELSE SubSeq(s, Min(keep), Max(keep))

\* s.strip()
Strip(s) == StripTo(s, {i \in 1..Len(s) : ~IsSpace(s[i])})

\* s.replace(ch, '')
Remove(s, ch) == SelectSeq(s, LAMBDA c : c # ch)

Digits == <<"0","1","2","3","4","5","6","7","8","9">>
IsDigit(c) == \E i \in 1..10 : Digits[i] = c
DigitVal(c) == (CHOOSE i \in 1..10 : Digits[i] = c) - 1

RECURSIVE Pow10(_)
Pow10(n) == IF n = 0 THEN 1 ELSE 10 * Pow10(n - 1)

RECURSIVE DigitsVal(_)
DigitsVal(s) ==
  IF Len(s) = 0 THEN 0
  ELSE 10 * DigitsVal(SubSeq(s, 1, Len(s) - 1)) + DigitVal(s[Len(s)])

(* ------------------------------- scores ------------------------------- *)

\* A float is the exact fraction num/den; den = 0 stands for nan (num = 0)
\* and for +-inf (num = +-1).
Float(n, d) == [num |-> n, den |-> d]
Half == Float(1, 2)
NaN == Float(0, 0)
Inf == Float(1, 0)

FloatEq(a, b) == a.den # 0 /\ b.den # 0 /\ a.num * b.den = b.num * a.den
\* 0.0 <= a <= 1.0 (false of nan and of the infinities)
InUnitInterval(a) == a.den > 0 /\ 0 <= a.num /\ a.num <= a.den

ParseParts(ip, fp, sign) ==
  IF /\ Len(ip) + Len(fp) > 0
     /\ \A i \in 1..Len(ip) : IsDigit(ip[i])
     /\ \A i \in 1..Len(fp) : IsDigit(fp[i])
  THEN Some(Float(sign * (DigitsVal(ip) * Pow10(Len(fp)) + DigitsVal(fp)),
                  Pow10(Len(fp))))
  ELSE None

ParseDecimal(body, sign, dots) ==
  IF dots = {} THEN ParseParts(body, <<>>, sign)
  ELSE IF Cardinality(dots) > 1 THEN None
  ELSE ParseParts(SubSeq(body, 1, Min(dots) - 1),
                  SubSeq(body, Min(dots) + 1, Len(body)), sign)

ParseUnsigned(body, sign) ==
  IF body = <<"n", "a", "n">> THEN Some(NaN)
  ELSE IF body \in {<<"i", "n", "f">>, <<"i", "n", "f", "i", "n", "i", "t", "y">>}
    THEN Some(Float(sign, 0))
  ELSE ParseDecimal(body, sign, SepAt(body, "."))

ParseSigned(t) ==
  ParseUnsigned(IF Len(t) > 0 /\ t[1] \in {"+", "-"} THEN Tail(t) ELSE t,
                IF Len(t) > 0 /\ t[1] = "-" THEN -1 ELSE 1)

\* float(str): None stands for ValueError.  Decimal literals with an optional
\* sign, "nan", "inf" and "infinity"; surrounding whitespace is ignored.
ParseFloat(str) == ParseSigned(Lower(Strip(str)))

(* ----------------------------- search_web ----------------------------- *)

\* What requests.post does for one call: it raises (network error, timeout),
\* or it returns a response with a status code and a body; json = None is a
\* body that response.json() cannot decode.
Raised(e) == [kind |-> "raise", exc |-> e]
HttpResponse(code, js) == [kind |-> "http", status_code |-> code, json |-> js]

\* one organic result -> one source (lines 155-159)
SourceOf(result) ==
  [ title   |-> Get(result, "title", ""),
    url     |-> Get(result, "link", ""),
    snippet |-> Get(result, "snippet", "") ]

\* search_web(query): Some(list), or None where the function ends without a
\* return statement (a response whose status is not 200).  The query does not
\* enter the result: the provider's answer is an input of the model.
search_web(SERPER_API_KEY, response) ==
  IF ~SERPER_API_KEY THEN Some(<<>>)
  ELSE IF response.kind = "raise" THEN Some(<<>>)
  ELSE IF response.status_code = 200
    THEN IF IsNone(response.json) THEN Some(<<>>)
         ELSE LET organic == Get(Val(response.json), "organic", <<>>)
              IN  Some([i \in 1..Len(organic) |-> SourceOf(organic[i])])
  ELSE None

(* ------------------------- fact_check_with_ai ------------------------- *)

\* A function call ends by returning a value or by raising an exception.
Return(v) == [ret |-> v]
Raise(e) == [exc |-> e]
Raises(x) == "exc" \in DOMAIN x

\* JSON values of a decoded reply
JNum(f) == [t |-> "num", f |-> f]
JStr(s) == [t |-> "str", s |-> s]
JNull == [t |-> "null"]
JList == [t |-> "list"]
JDict(d) == [t |-> "dict", d |-> d]

\* What the chat-completion call does: it raises, or it returns a content that
\* json.loads decodes (json = Some(value)) or rejects (json = None); lines is
\* content.split('\n') and raw stands for the whole content.
AiRaised(e) == [kind |-> "raise", exc |-> e]
AiContent(raw, js, lines) == [kind |-> "content", raw |-> raw, json |-> js, lines |-> lines]

Reasoning(head, detail) == [head |-> head, detail |-> detail]
AiResult(score, reasoning) == [likelihood_score |-> score, reasoning |-> reasoning]

FloatOrRaise(parsed) ==
  IF IsNone(parsed) THEN Raise("ValueError: could not convert string to float")
  ELSE Return(Val(parsed))

\* float(x) of a decoded JSON value
PyFloat(x) ==
  CASE x.t = "num"  -> Return(x.f)
    [] x.t = "str"  -> FloatOrRaise(ParseFloat(x.s))
    [] OTHER        -> Raise("TypeError: float() argument must be a string or a number")

KeyChars == <<"l","i","k","e","l","i","h","o","o","d","_","s","c","o","r","e">>

\* lines 228-233 for one line: Some(score) when the try block succeeds
LineScore(line) ==
  IF SplitCount(line, ":") < 2 THEN None
  ELSE ParseFloat(Remove(Remove(Strip(SplitSecond(line, ":")), ","), "\""))

FirstScore(lines, hits) ==
  IF hits = {} THEN Half ELSE Val(LineScore(lines[Min(hits)]))

\* lines 221-233: the first line naming the score field whose value parses
FallbackScore(lines) ==
  FirstScore(lines, {i \in 1..Len(lines) :
                       Contains(Lower(lines[i]), KeyChars) /\ ~IsNone(LineScore(lines[i]))})

\* lines 215-218
StructuredResult(result, score) ==
  IF Raises(score) THEN score
  ELSE Return(AiResult(score.ret,
         Reasoning(Get(result.d, "reasoning", "Analysis completed"), "")))

\* lines 214-218 for the decoded reply
StructuredReply(result) ==
  IF result.t # "dict" THEN Raise("AttributeError: object has no attribute 'get'")
  ELSE StructuredResult(result, PyFloat(Get(result.d, "likelihood_score", JNum(Half))))

\* lines 213-238 inside the outer try: returns, or raises into line 240
ParseReply(content) ==
  IF ~IsNone(content.json) THEN StructuredReply(Val(content.json))
  ELSE Return(AiResult(FallbackScore(content.lines), Reasoning(content.raw, "")))

\* lines 240-244: except Exception
Recover(outcome) ==
  IF Raises(outcome)
  THEN Return(AiResult(Half, Reasoning("Error during AI analysis: ", outcome.exc)))
  ELSE outcome

\* lines 199-244: the try block around the call and the parsing of the reply
CallModel(reply) ==
  Recover(IF reply.kind = "raise" THEN Raise(reply.exc) ELSE ParseReply(reply))

\* fact_check_with_ai(text, sources) with the model's reply as an input.
\* sources[:3] (line 177) is evaluated before the try block of line 199.
fact_check_with_ai_NoDegradedMode(client, sources, reply) ==
  IF IsNone(sources)
  THEN Raise("TypeError: 'NoneType' object is not subscriptable")
  ELSE CallModel(reply)

fact_check_with_ai(client, sources, reply) ==
  IF ~client
  THEN Return(AiResult(Half,
         Reasoning("AI fact-checking unavailable - OpenAI API key not configured", "")))
  ELSE IF IsNone(sources)
  THEN Raise("TypeError: 'NoneType' object is not subscriptable")
  ELSE CallModel(reply)

(* ------------------------------- state -------------------------------- *)

VARIABLES
  now,            \* datetime.utcnow(), in days
  openai_client,  \* TRUE iff OPENAI_API_KEY is set (line 36)
  SERPER_API_KEY, \* TRUE iff SERPER_API_KEY is set (line 24)
  users,          \* users_collection, in insertion order
  sessions,       \* sessions_collection, in insertion order
  fact_checks,    \* fact_checks_collection, in insertion order
  req             \* the request each worker is serving, with the handler's locals

vars == <<now, openai_client, SERPER_API_KEY, users, sessions, fact_checks, req>>

Reqs == 1..NumReq

\* a worker with no request
IdleReq ==
  [ op |-> "idle", pc |-> "idle", auth_header |-> [scheme |-> "", token |-> 0],
    email |-> "", name |-> "", text |-> "",
    user |-> None, credits_needed |-> 0, response |-> None, sources |-> None,
    reply |-> None, db_error |-> None, ai_result |-> None, fact_check |-> None, status |-> 0, body |-> None ]

\* jsonify(...) with a status code
ErrorBody(msg) == [kind |-> "error", value |-> msg]
Body(kind, value) == [kind |-> kind, value |-> value]

Done(q, status, body) == [q EXCEPT !.pc = "done", !.status = status, !.body = Some(body)]

\* collection.find_one({key: value}): the first matching document, or None
FindOne(coll, key, value) ==
  LET hits == {i \in 1..Len(coll) : coll[i][key] = value}
  IN  IF hits = {} THEN None
      ELSE Some(coll[CHOOSE i \in hits : \A j \in hits : i <= j])

\* str(uuid.uuid4()): a value that no document of the collection carries
uuid4_Fixed(used) == 1

uuid4(used) == CHOOSE n \in 1..(Cardinality(used) + 1) : n \notin used

UserIds == {users[i].id : i \in 1..Len(users)}
SessionIds == {sessions[i].session_id : i \in 1..Len(sessions)}
FactCheckIds == {fact_checks[i].id : i \in 1..Len(fact_checks)}

\* the Authorization header of a request: absent, another scheme, or
\* "Bearer <token>" with a token that was issued or with one that never was (0)
NoHeader == [scheme |-> "", token |-> 0]
AuthHeaders ==
  {NoHeader, [scheme |-> "Basic", token |-> 0]}
    \cup {[scheme |-> "Bearer", token |-> t] : t \in SessionIds \cup {0}}

\* not auth_header or not auth_header.startswith('Bearer ')
BadHeader(auth_header) == auth_header.scheme # "Bearer"

\* line 98: datetime.utcnow() > session["expires_at"]
SessionExpired_Never(session, t) == FALSE

SessionExpired(session, t) == t > session.expires_at

\* lines 94-102 for the session document found
UserOfSession(session, t) ==
  IF IsNone(session) THEN None
  ELSE IF SessionExpired(Val(session), t) THEN None
  ELSE FindOne(users, "id", Val(session).user_id)

\* get_user_from_session(session_id) evaluated at time t
get_user_from_session(session_id, t) ==
  UserOfSession(FindOne(sessions, "session_id", session_id), t)

\* the document built at lines 295-304
NewUser_NoCredits(user_id, email, name, t) ==
  [ id |-> user_id, email |-> email, name |-> name, plan |-> "free",
    credits |-> 0, credits_reset_date |-> t + SevenDays,
    created_at |-> t, is_active |-> TRUE ]

NewUser(user_id, email, name, t) ==
  [ id |-> user_id, email |-> email, name |-> name, plan |-> "free",
    credits |-> InitialCredits, credits_reset_date |-> t + SevenDays,
    created_at |-> t, is_active |-> TRUE ]

\* the document built at lines 310-315 and 340-345
NewSession(session_id, user_id, t) ==
  [ session_id |-> session_id, user_id |-> user_id,
    created_at |-> t, expires_at |-> t + SevenDays ]

\* A new request goes to the first worker that is idle.
Accepts(r) == req[r].pc = "idle" /\ \A r2 \in Reqs : r2 < r => req[r2].pc # "idle"

\* requests in flight that will still insert a document
InFlight(ops, pcs) == Cardinality({r \in Reqs : req[r].op \in ops /\ req[r].pc \in pcs})

RoomForUser ==
  Len(users) + InFlight({"register"}, {"insert_user"}) < MaxUsers
RoomForSession ==
  Len(sessions) + InFlight({"register"}, {"insert_user", "insert_session"})
                + InFlight({"login"}, {"insert_session"}) < MaxSessions
RoomForFactCheck(cap) ==
  Len(fact_checks)
    + InFlight({"fact_check"}, {"fresh", "reread", "search", "ai", "insert"}) < cap


(* ------------------------------ inputs -------------------------------- *)

\* request fields; "" also stands for a field that is missing
Emails == {"ann@example.com", "bob@example.com"}
Names == {"Ann"}

(* --------------------------- register_user ---------------------------- *)

\* lines 282-292: validation and the lookup of the email
RegisterFind(r) ==
  /\ Accepts(r)
  /\ RoomForUser /\ RoomForSession
  /\ \E email \in Emails \cup {""}, name \in Names \cup {""} :
       LET q == [IdleReq EXCEPT !.op = "register", !.email = email, !.name = name]
           existing_user == FindOne(users, "email", email)
       IN  req' = [req EXCEPT ![r] =
             IF "" \in {email, name}
               THEN Done(q, 400, ErrorBody("Email and name required"))
             ELSE IF ~IsNone(existing_user)
               THEN Done(q, 400, ErrorBody("User already exists"))
             ELSE [q EXCEPT !.pc = "insert_user"]]
  /\ UNCHANGED <<now, openai_client, SERPER_API_KEY, users, sessions, fact_checks>>

\* lines 294-306: the user document and its insert
RegisterInsertUser(r) ==
  /\ req[r].op = "register" /\ req[r].pc = "insert_user"
  /\ LET user == NewUser(uuid4(UserIds), req[r].email, req[r].name, now)
     IN  /\ users' = Append(users, user)
         /\ req' = [req EXCEPT ![r].pc = "insert_session", ![r].user = Some(user)]
  /\ UNCHANGED <<now, openai_client, SERPER_API_KEY, sessions, fact_checks>>

\* lines 308-319: the session document, its insert and the response
RegisterInsertSession(r) ==
  /\ req[r].op = "register" /\ req[r].pc = "insert_session"
  /\ LET user == Val(req[r].user)
         session == NewSession(uuid4(SessionIds), user.id, now)
     IN  /\ sessions' = Append(sessions, session)
         /\ req' = [req EXCEPT ![r] = Done(req[r], 200,
                      Body("session", [session_id |-> session.session_id, user |-> user]))]
  /\ UNCHANGED <<now, openai_client, SERPER_API_KEY, users, fact_checks>>

(* ----------------------------- login_user ----------------------------- *)

\* lines 328-336: validation and the lookup of the user
LoginFind(r) ==
  /\ Accepts(r)
  /\ RoomForSession
  /\ \E email \in Emails \cup {""} :
       LET q == [IdleReq EXCEPT !.op = "login", !.email = email]
           user == FindOne(users, "email", email)
       IN  req' = [req EXCEPT ![r] =
             IF email = "" THEN Done(q, 400, ErrorBody("Email required"))
             ELSE IF IsNone(user) THEN Done(q, 404, ErrorBody("User not found"))
             ELSE [q EXCEPT !.pc = "insert_session", !.user = user]]
  /\ UNCHANGED <<now, openai_client, SERPER_API_KEY, users, sessions, fact_checks>>

\* lines 338-349: the session document, its insert and the response
LoginInsertSession(r) ==
  /\ req[r].op = "login" /\ req[r].pc = "insert_session"
  /\ LET user == Val(req[r].user)
         session == NewSession(uuid4(SessionIds), user.id, now)
     IN  /\ sessions' = Append(sessions, session)
         /\ req' = [req EXCEPT ![r] = Done(req[r], 200,
                      Body("session", [session_id |-> session.session_id, user |-> user]))]
  /\ UNCHANGED <<now, openai_client, SERPER_API_KEY, users, fact_checks>>

(* -------------------- get_user_profile / fact-checks ------------------ *)

\* lines 422-434
GetUserProfile_PruneExpired(r) ==
  /\ Accepts(r)
  /\ \E auth_header \in AuthHeaders :
       LET q == [IdleReq EXCEPT !.op = "profile", !.auth_header = auth_header]
           user == get_user_from_session(auth_header.token, now)
       IN  req' = [req EXCEPT ![r] =
             IF BadHeader(auth_header)
               THEN Done(q, 401, ErrorBody("Missing or invalid authorization header"))
             ELSE IF IsNone(user) THEN Done(q, 401, ErrorBody("Invalid session"))
             ELSE Done(q, 200, Body("user", Val(user)))]
  /\ sessions' = SelectSeq(sessions, LAMBDA session : ~SessionExpired(session, now))
  /\ UNCHANGED <<now, openai_client, SERPER_API_KEY, users, fact_checks>>

GetUserProfile(r) ==
  /\ Accepts(r)
  /\ \E auth_header \in AuthHeaders :
       LET q == [IdleReq EXCEPT !.op = "profile", !.auth_header = auth_header]
           user == get_user_from_session(auth_header.token, now)
       IN  req' = [req EXCEPT ![r] =
             IF BadHeader(auth_header)
               THEN Done(q, 401, ErrorBody("Missing or invalid authorization header"))
             ELSE IF IsNone(user) THEN Done(q, 401, ErrorBody("Invalid session"))
             ELSE Done(q, 200, Body("user", Val(user)))]
  /\ UNCHANGED <<now, openai_client, SERPER_API_KEY, users, sessions, fact_checks>>

\* lines 442-452: the session check of the history endpoint
HistoryResolve(r) ==
  /\ Accepts(r)
  /\ \E auth_header \in AuthHeaders :
       LET q == [IdleReq EXCEPT !.op = "history", !.auth_header = auth_header]
           user == get_user_from_session(auth_header.token, now)
       IN  req' = [req EXCEPT ![r] =
             IF BadHeader(auth_header)
               THEN Done(q, 401, ErrorBody("Missing or invalid authorization header"))
             ELSE IF IsNone(user) THEN Done(q, 401, ErrorBody("Invalid session"))
             ELSE [q EXCEPT !.pc = "find", !.user = user]]
  /\ UNCHANGED <<now, openai_client, SERPER_API_KEY, users, sessions, fact_checks>>

HistoryLimit == 20

\* a list in descending order of created_at holding the documents at idx
RECURSIVE SortedDesc(_, _)
SortedDesc(coll, idx) ==
  IF idx = {} THEN <<>>
  ELSE LET first == CHOOSE i \in idx :
                      \A j \in idx : \/ coll[i].created_at > coll[j].created_at
                                     \/ coll[i].created_at = coll[j].created_at /\ i <= j
       IN  <<coll[first]>> \o SortedDesc(coll, idx \ {first})

\* cursor.limit(n)
Limit(docs, n) == SubSeq(docs, 1, IF Len(docs) < n THEN Len(docs) ELSE n)

\* find({"user_id": id}).sort("created_at", -1).limit(20); documents with equal
\* created_at come in insertion order
FindHistory(user_id) ==
  Limit(SortedDesc(fact_checks,
                   {i \in 1..Len(fact_checks) : fact_checks[i].user_id = user_id}),
        HistoryLimit)

\* lines 454-458
HistoryFind(r) ==
  /\ req[r].op = "history" /\ req[r].pc = "find"
  /\ req' = [req EXCEPT ![r] = Done(req[r], 200,
               Body("list", FindHistory(Val(req[r].user).id)))]
  /\ UNCHANGED <<now, openai_client, SERPER_API_KEY, users, sessions, fact_checks>>


(* --------------------------- fact_check_text -------------------------- *)

\* line 376: datetime.utcnow() > user["credits_reset_date"]
ResetDue_Early(user, t) == t >= user.credits_reset_date

ResetDue(user, t) == t > user.credits_reset_date

\* line 383: user["credits"] < credits_needed
InsufficientCredits_ZeroOnly(user, credits_needed) == user.credits <= 0

InsufficientCredits(user, credits_needed) == user.credits < credits_needed

\* lines 383-384
CreditGate(q) ==
  IF InsufficientCredits(Val(q.user), q.credits_needed)
  THEN Done(q, 402, ErrorBody("Insufficient credits"))
  ELSE [q EXCEPT !.pc = "search"]

\* lines 380-384 for the user document the handler holds
CheckCredits(q, user) ==
  CreditGate([q EXCEPT !.user = Some(user),
                       !.credits_needed = calculate_credits_needed(q.text)])

\* lines 359-373: the session check and the text of the request
FactCheckResolve(r, headers, texts, cap) ==
  /\ Accepts(r)
  /\ RoomForFactCheck(cap)
  /\ \E auth_header \in headers, text \in texts :
       LET q == [IdleReq EXCEPT !.op = "fact_check", !.auth_header = auth_header,
                                    !.text = text]
           user == get_user_from_session(auth_header.token, now)
       IN  req' = [req EXCEPT ![r] =
             IF BadHeader(auth_header)
               THEN Done(q, 401, ErrorBody("Missing or invalid authorization header"))
             ELSE IF IsNone(user) THEN Done(q, 401, ErrorBody("Invalid session"))
             ELSE IF text = "" THEN Done(q, 400, ErrorBody("Text required"))
             ELSE [q EXCEPT !.pc = "fresh", !.user = user]]
  /\ UNCHANGED <<now, openai_client, SERPER_API_KEY, users, sessions, fact_checks>>

\* reset_weekly_credits(user_id), lines 110-123: the $set of update_one
WeeklyReset(user, t) ==
  [user EXCEPT !.credits = PlanOf(user.plan).weekly_credits,
               !.credits_reset_date = t + SevenDays]

\* lines 376-377: the reset is due and reset_weekly_credits writes it
FactCheckReset(r) ==
  /\ req[r].op = "fact_check" /\ req[r].pc = "fresh"
  /\ ResetDue(Val(req[r].user), now)
  /\ users' = [i \in 1..Len(users) |->
                 IF users[i].id = Val(req[r].user).id
                 THEN WeeklyReset(users[i], now) ELSE users[i]]
  /\ req' = [req EXCEPT ![r].pc = "reread"]
  /\ UNCHANGED <<now, openai_client, SERPER_API_KEY, sessions, fact_checks>>

\* lines 378-384: the user is read again after the reset, then the credit check
FactCheckReread(r) ==
  /\ req[r].op = "fact_check" /\ req[r].pc = "reread"
  /\ LET user == FindOne(users, "id", Val(req[r].user).id)
     IN  req' = [req EXCEPT ![r] = CheckCredits(req[r], Val(user))]
  /\ UNCHANGED <<now, openai_client, SERPER_API_KEY, users, sessions, fact_checks>>

\* lines 376, 380-384: no reset is due, the credit check reads the user document
\* that the session check returned
FactCheckCredits(r) ==
  /\ req[r].op = "fact_check" /\ req[r].pc = "fresh"
  /\ ~ResetDue(Val(req[r].user), now)
  /\ req' = [req EXCEPT ![r] = CheckCredits(req[r], Val(req[r].user))]
  /\ UNCHANGED <<now, openai_client, SERPER_API_KEY, users, sessions, fact_checks>>

\* lines 386-388: search_web; the provider is called only with an API key
FactCheckSearch(r, responses) ==
  /\ req[r].op = "fact_check" /\ req[r].pc = "search"
  /\ \E response \in responses :
       req' = [req EXCEPT
         ![r].pc = "ai",
         ![r].response = IF SERPER_API_KEY THEN Some(response) ELSE None,
         ![r].sources = search_web(SERPER_API_KEY, response)]
  /\ UNCHANGED <<now, openai_client, SERPER_API_KEY, users, sessions, fact_checks>>

\* fact_check_with_ai reaches the call of lines 200-208: there is a client and
\* lines 175-178 did not raise
ModelCalled(client, sources) == client /\ ~IsNone(sources)

\* line 391 returns, or the exception reaches lines 416-417
AfterAi(q, ai_result) ==
  IF Raises(ai_result) THEN Done(q, 500, ErrorBody(ai_result.exc))
  ELSE [q EXCEPT !.pc = "insert", !.ai_result = Some(ai_result.ret)]

\* lines 390-391 (and 416-417 when fact_check_with_ai raises)
FactCheckAi(r, replies) ==
  /\ req[r].op = "fact_check" /\ req[r].pc = "ai"
  /\ \E reply \in replies :
       req' = [req EXCEPT ![r] =
         AfterAi([req[r] EXCEPT !.reply = IF ModelCalled(openai_client, req[r].sources)
                                          THEN Some(reply) ELSE None],
                 fact_check_with_ai(openai_client, req[r].sources, reply))]
  /\ UNCHANGED <<now, openai_client, SERPER_API_KEY, users, sessions, fact_checks>>

\* the document built at lines 394-404
NewFactCheck(fact_check_id, q, t) ==
  [ id |-> fact_check_id, user_id |-> Val(q.user).id, text |-> q.text,
    likelihood_score |-> Val(q.ai_result).likelihood_score,
    reasoning |-> Val(q.ai_result).reasoning,
    sources |-> q.sources, credits_used |-> q.credits_needed, created_at |-> t ]

\* lines 393-406: the record and its insert
FactCheckInsert_NotStored(r) ==
  /\ req[r].op = "fact_check" /\ req[r].pc = "insert"
  /\ req' = [req EXCEPT ![r].pc = "debit",
                        ![r].fact_check = Some(NewFactCheck(uuid4(FactCheckIds), req[r], now))]
  /\ UNCHANGED <<now, openai_client, SERPER_API_KEY, users, sessions, fact_checks>>

FactCheckInsert(r) ==
  /\ req[r].op = "fact_check" /\ req[r].pc = "insert"
  /\ LET fact_check == NewFactCheck(uuid4(FactCheckIds), req[r], now)
     IN  /\ fact_checks' = Append(fact_checks, fact_check)
         /\ req' = [req EXCEPT ![r].pc = "debit", ![r].fact_check = Some(fact_check)]
  /\ UNCHANGED <<now, openai_client, SERPER_API_KEY, users, sessions>>

\* lines 409-412: {"$inc": {"credits": -credits_needed}}
Debit_Flat(user, credits_needed) == [user EXCEPT !.credits = @ - 1]

Debit(user, credits_needed) == [user EXCEPT !.credits = @ - credits_needed]

\* lines 408-414: the debit and the response
FactCheckDebit(r) ==
  /\ req[r].op = "fact_check" /\ req[r].pc = "debit"
  /\ users' = [i \in 1..Len(users) |->
                 IF users[i].id = Val(req[r].user).id
                 THEN Debit(users[i], req[r].credits_needed) ELSE users[i]]
  /\ req' = [req EXCEPT ![r] =
               Done(req[r], 200, Body("fact_check", Val(req[r].fact_check)))]
  /\ UNCHANGED <<now, openai_client, SERPER_API_KEY, sessions, fact_checks>>

(* ------------------------- persistence failures ----------------------- *)

\* str(e) of the exception a collection operation raises when the database
\* cannot be reached
DbErrors == {"ServerSelectionTimeoutError: localhost:27017: connection refused"}

\* lines 94-105 under lines 364-367, 429-432 and 449-452: a find_one of
\* get_user_from_session raises, the except of line 103 returns None and the
\* handler answers as for an invalid session
SessionLookupFault(r) ==
  /\ Accepts(r)
  /\ \E op \in {"fact_check", "profile", "history"}, token \in SessionIds, e \in DbErrors :
       req' = [req EXCEPT ![r] =
         Done([IdleReq EXCEPT !.op = op,
                              !.auth_header = [scheme |-> "Bearer", token |-> token],
                              !.db_error = Some(e)],
              401, ErrorBody("Invalid session"))]
  /\ UNCHANGED <<now, openai_client, SERPER_API_KEY, users, sessions, fact_checks>>

\* lines 376-377 with lines 109-125: the reset is due, an operation of
\* reset_weekly_credits raises, the except of line 124 prints and returns
FactCheckResetFault(r) ==
  /\ req[r].op = "fact_check" /\ req[r].pc = "fresh"
  /\ ResetDue(Val(req[r].user), now)
  /\ \E e \in DbErrors :
       req' = [req EXCEPT ![r].pc = "reread", ![r].db_error = Some(e)]
  /\ UNCHANGED <<now, openai_client, SERPER_API_KEY, users, sessions, fact_checks>>

\* an exception raised in fact_check_text reaches lines 416-417
InternalError(q, e) == Done([q EXCEPT !.db_error = Some(e)], 500, ErrorBody(e))

\* line 378: the find_one after the reset raises
FactCheckRereadFault(r) ==
  /\ req[r].op = "fact_check" /\ req[r].pc = "reread"
  /\ \E e \in DbErrors : req' = [req EXCEPT ![r] = InternalError(req[r], e)]
  /\ UNCHANGED <<now, openai_client, SERPER_API_KEY, users, sessions, fact_checks>>

\* line 406: insert_one raises
FactCheckInsertFault(r) ==
  /\ req[r].op = "fact_check" /\ req[r].pc = "insert"
  /\ \E e \in DbErrors : req' = [req EXCEPT ![r] = InternalError(req[r], e)]
  /\ UNCHANGED <<now, openai_client, SERPER_API_KEY, users, sessions, fact_checks>>

\* lines 409-412: update_one raises after the record has been inserted
FactCheckDebitFault(r) ==
  /\ req[r].op = "fact_check" /\ req[r].pc = "debit"
  /\ \E e \in DbErrors : req' = [req EXCEPT ![r] = InternalError(req[r], e)]
  /\ UNCHANGED <<now, openai_client, SERPER_API_KEY, users, sessions, fact_checks>>

(* ----------------------------- environment ---------------------------- *)

\* the response leaves and the worker is idle again
Respond(r) ==
  /\ req[r].pc = "done"
  /\ req' = [req EXCEPT ![r] = IdleReq]
  /\ UNCHANGED <<now, openai_client, SERPER_API_KEY, users, sessions, fact_checks>>

\* the clock advances; the instants observed are a week apart
TickDays == {SevenDays}

Tick ==
  /\ \E d \in TickDays : now + d <= MaxTime /\ now' = now + d
  /\ UNCHANGED <<openai_client, SERPER_API_KEY, users, sessions, fact_checks, req>>


(* ------------------------- provider behaviours ------------------------ *)

FullResult == [title |-> "T", link |-> "https://t.example", snippet |-> "S"]
BareResult == [title |-> "T"]

SearchRaises == {Raised("ConnectionError"), Raised("Timeout")}
SearchNon200 == {HttpResponse(429, None), HttpResponse(500, None)}
SearchOk ==
  { HttpResponse(200, None),
    HttpResponse(200, Some([credits |-> 1])),
    HttpResponse(200, Some([organic |-> <<>>])),
    HttpResponse(200, Some([organic |-> <<FullResult, BareResult>>])),
    HttpResponse(200, Some([organic |-> <<FullResult, FullResult, FullResult,
                                          FullResult, FullResult, FullResult>>])) }
SearchResponses == SearchRaises \cup SearchNon200 \cup SearchOk

Num(n, d) == JNum(Float(n, d))
ScoreLine(value) == KeyChars \o <<":", " ">> \o value

AiReplies ==
  { AiRaised("Connection error."),
    AiContent("json", Some(JDict([likelihood_score |-> Num(8, 10), reasoning |-> "R"])), <<>>),
    AiContent("json", Some(JDict([likelihood_score |-> Num(15, 10), reasoning |-> "R"])), <<>>),
    AiContent("json", Some(JDict([likelihood_score |-> JStr(<<"0", ".", "7">>)])), <<>>),
    AiContent("json", Some(JDict([likelihood_score |-> JStr(<<"h", "i", "g", "h">>),
                                  reasoning |-> "R"])), <<>>),
    AiContent("json", Some(JDict([likelihood_score |-> JNull, reasoning |-> "R"])), <<>>),
    AiContent("json", Some(JDict([reasoning |-> "R"])), <<>>),
    AiContent("json", Some(JList), <<>>),
    AiContent("prose", None, << <<"I", " ", "c", "a", "n", "n", "o", "t">> >>),
    AiContent("fenced", None,
      << <<"{">>,
         <<"\"">> \o KeyChars \o <<"\"", ":", " ", "0", ".", "7", ",">>,
         <<"}">> >>),
    AiContent("no colon", None, << KeyChars \o <<" ", "h", "i", "g", "h">> >>),
    AiContent("second line", None,
      << <<"L", "i", "k", "e", "l", "i", "h", "o", "o", "d", "_", "S", "c", "o", "r", "e",
           ":", " ", "h", "i", "g", "h">>,
         ScoreLine(<<"0", ".", "2">>) >>),
    AiContent("out of range", None, << ScoreLine(<<"7">>) >>),
    AiContent("nan", None, << ScoreLine(<<"n", "a", "n">>) >>) }

(* --------------------------- specifications --------------------------- *)

\* A database at process start; EmptyDb is a fresh deployment.
Db(u, s, f) == [users |-> u, sessions |-> s, fact_checks |-> f]
EmptyDb == Db(<<>>, <<>>, <<>>)

\* the service starts on day t with one of the databases dbs
InitWith(t, dbs, clients, keys) ==
  /\ now = t
  /\ openai_client \in clients
  /\ SERPER_API_KEY \in keys
  /\ \E db \in dbs :
       /\ users = db.users
       /\ sessions = db.sessions
       /\ fact_checks = db.fact_checks
  /\ req = [r \in Reqs |-> IdleReq]

\* The whole service on a fresh database, deployed without provider keys:
\* search_web and fact_check_with_ai take their key-less paths.
SpecTexts == {"", "w10"}

Init == InitWith(0, {EmptyDb}, {FALSE}, {FALSE})

Next ==
  \/ \E r \in Reqs : RegisterFind(r)
  \/ \E r \in Reqs : RegisterInsertUser(r)
  \/ \E r \in Reqs : RegisterInsertSession(r)
  \/ \E r \in Reqs : LoginFind(r)
  \/ \E r \in Reqs : LoginInsertSession(r)
  \/ \E r \in Reqs : GetUserProfile(r)
  \/ \E r \in Reqs : HistoryResolve(r)
  \/ \E r \in Reqs : HistoryFind(r)
  \/ \E r \in Reqs : FactCheckResolve(r, AuthHeaders, SpecTexts, MaxFactChecks)
  \/ \E r \in Reqs : FactCheckReset(r)
  \/ \E r \in Reqs : FactCheckReread(r)
  \/ \E r \in Reqs : FactCheckCredits(r)
  \/ \E r \in Reqs : FactCheckSearch(r, SearchRaises)
  \/ \E r \in Reqs : FactCheckAi(r, {AiRaised("Connection error.")})
  \/ \E r \in Reqs : FactCheckInsert(r)
  \/ \E r \in Reqs : FactCheckDebit(r)
  \/ \E r \in Reqs : Respond(r)
  \/ Tick

Spec == Init /\ [][Next]_vars

(* The session store: every endpoint of the service on a fresh database,    *)
(* with one worker serving the account endpoints, which create sessions,    *)
(* while another serves the authenticated endpoints, which resolve them.    *)
(* By Accepts the second worker takes a request while the first holds one.  *)
NextStore ==
  \/ RegisterFind(1)
  \/ RegisterInsertUser(1)
  \/ RegisterInsertSession(1)
  \/ LoginFind(1)
  \/ LoginInsertSession(1)
  \/ GetUserProfile(2)
  \/ HistoryResolve(2)
  \/ HistoryFind(2)
  \/ FactCheckResolve(2, AuthHeaders, SpecTexts, MaxFactChecks)
  \/ FactCheckReset(2)
  \/ FactCheckReread(2)
  \/ FactCheckCredits(2)
  \/ FactCheckSearch(2, SearchRaises)
  \/ FactCheckAi(2, {AiRaised("Connection error.")})
  \/ FactCheckInsert(2)
  \/ FactCheckDebit(2)
  \/ \E r \in {1, 2} : Respond(r)
  \/ Tick

SpecStore == Init /\ [][NextStore]_vars

(* Accounts: registration and login on a fresh database.                   *)
NextAccounts ==
  \/ \E r \in Reqs : RegisterFind(r)
  \/ \E r \in Reqs : RegisterInsertUser(r)
  \/ \E r \in Reqs : RegisterInsertSession(r)
  \/ \E r \in Reqs : LoginFind(r)
  \/ \E r \in Reqs : LoginInsertSession(r)
  \/ \E r \in Reqs : Respond(r)
  \/ Tick

SpecAccounts == InitWith(0, {EmptyDb}, {FALSE}, {FALSE}) /\ [][NextAccounts]_vars

(* The authenticated endpoints.  On day 7 the database holds a user who     *)
(* registered on day 0 and logged in on day 7, and a session of the same   *)
(* day whose user document is gone.                                        *)
SessionsDb ==
  Db( << NewUser(1, "ann@example.com", "Ann", 0) >>,
      << NewSession(1, 1, 0), NewSession(2, 1, SevenDays), NewSession(3, 7, SevenDays) >>,
      <<>> )

NextSessions ==
  \/ \E r \in Reqs : GetUserProfile(r)
  \/ \E r \in Reqs : HistoryResolve(r)
  \/ \E r \in Reqs : HistoryFind(r)
  \/ \E r \in Reqs : FactCheckResolve(r, AuthHeaders, SpecTexts, MaxFactChecks)
  \/ \E r \in Reqs : FactCheckReset(r)
  \/ \E r \in Reqs : FactCheckReread(r)
  \/ \E r \in Reqs : FactCheckCredits(r)
  \/ \E r \in Reqs : FactCheckSearch(r, SearchRaises)
  \/ \E r \in Reqs : FactCheckAi(r, {AiRaised("Connection error.")})
  \/ \E r \in Reqs : FactCheckInsert(r)
  \/ \E r \in Reqs : FactCheckDebit(r)
  \/ \E r \in Reqs : Respond(r)
  \/ Tick

SpecSessions == InitWith(SevenDays, {SessionsDb}, {FALSE}, {FALSE}) /\ [][NextSessions]_vars

(* The credit ledger under concurrent fact-checks of one user.  On day 7    *)
(* the database is the one left by a user who registered on day 0, logged   *)
(* in on day 7 and has spent 25 of the 30 credits on five 501-word texts.   *)
SpentFactCheck(i) ==
  [ id |-> i, user_id |-> 1, text |-> "w501", likelihood_score |-> Half,
    reasoning |-> Reasoning("AI fact-checking unavailable - OpenAI API key not configured", ""),
    sources |-> Some(<<>>), credits_used |-> 5, created_at |-> 0 ]

LedgerDb ==
  Db( << [NewUser(1, "ann@example.com", "Ann", 0) EXCEPT !.credits = 5] >>,
      << NewSession(1, 1, 0), NewSession(2, 1, SevenDays) >>,
      [i \in 1..5 |-> SpentFactCheck(i)] )

LedgerTexts == {"w10", "w501"}
\* every request carries the token of the login of day 7
LedgerHeaders == {[scheme |-> "Bearer", token |-> 2]}

NextLedger ==
  \/ \E r \in Reqs : FactCheckResolve(r, LedgerHeaders, LedgerTexts,
                                        Len(LedgerDb.fact_checks) + MaxCharges)
  \/ \E r \in Reqs : FactCheckReset(r)
  \/ \E r \in Reqs : FactCheckReread(r)
  \/ \E r \in Reqs : FactCheckCredits(r)
  \/ \E r \in Reqs : FactCheckSearch(r, SearchRaises)
  \/ \E r \in Reqs : FactCheckAi(r, {AiRaised("Connection error.")})
  \/ \E r \in Reqs : FactCheckInsert(r)
  \/ \E r \in Reqs : FactCheckDebit(r)
  \/ \E r \in Reqs : Respond(r)
  \/ Tick

SpecLedger == InitWith(SevenDays, {LedgerDb}, {FALSE}, {FALSE}) /\ [][NextLedger]_vars

(* The weekly reset for each plan.  The service never writes the plan of a   *)
(* user: a plan other than "free", or a name that PLANS does not hold, is   *)
(* written to the users collection from outside.                           *)
ResetPlans == {"free", "pro", "gold"}

ResetDb(plan) ==
  [LedgerDb EXCEPT !.users = << [LedgerDb.users[1] EXCEPT !.plan = plan] >>]

SpecReset ==
  InitWith(SevenDays, {ResetDb(plan) : plan \in ResetPlans}, {FALSE}, {FALSE})
    /\ [][NextLedger]_vars

(* The history endpoint.  On day 7 the database holds Ann, who registered   *)
(* on day -21, has checked one 10-word text a day up to day 0 (her balance   *)
(* was reset on days -13 and -5) and logged in on day 7, and Bob, who        *)
(* registered and checked one text on day 0.                                *)
HistoryRecord(i, user_id, t) ==
  [ id |-> i, user_id |-> user_id, text |-> "w10", likelihood_score |-> Half,
    reasoning |-> Reasoning("AI fact-checking unavailable - OpenAI API key not configured", ""),
    sources |-> Some(<<>>), credits_used |-> 1, created_at |-> t ]

HistoryDb ==
  Db( << [NewUser(1, "ann@example.com", "Ann", -21)
            EXCEPT !.credits = 24, !.credits_reset_date = 2],
         [NewUser(2, "bob@example.com", "Bob", 0) EXCEPT !.credits = 29] >>,
      << NewSession(1, 1, -21), NewSession(2, 2, 0), NewSession(3, 1, SevenDays) >>,
      [i \in 1..22 |-> IF i <= 21 THEN HistoryRecord(i, 1, i - 21)
                                  ELSE HistoryRecord(i, 2, 0)] )

\* the tokens of Bob's registration and of Ann's login
HistoryHeaders == {[scheme |-> "Bearer", token |-> t] : t \in {2, 3}}

NextHistory ==
  \/ \E r \in Reqs : HistoryResolve(r)
  \/ \E r \in Reqs : HistoryFind(r)
  \/ \E r \in Reqs : FactCheckResolve(r, HistoryHeaders, {"w10"},
                                        Len(HistoryDb.fact_checks) + MaxCharges)
  \/ \E r \in Reqs : FactCheckReset(r)
  \/ \E r \in Reqs : FactCheckReread(r)
  \/ \E r \in Reqs : FactCheckCredits(r)
  \/ \E r \in Reqs : FactCheckSearch(r, {Raised("Timeout")})
  \/ \E r \in Reqs : FactCheckAi(r, {AiRaised("Connection error.")})
  \/ \E r \in Reqs : FactCheckInsert(r)
  \/ \E r \in Reqs : FactCheckDebit(r)
  \/ \E r \in Reqs : Respond(r)
  \/ Tick

SpecHistory == InitWith(SevenDays, {HistoryDb}, {FALSE}, {FALSE}) /\ [][NextHistory]_vars

(* The fact-check endpoint of the ledger database with a database that may  *)
(* fail at any operation.                                                  *)
NextFaults ==
  \/ NextLedger
  \/ \E r \in Reqs : SessionLookupFault(r)
  \/ \E r \in Reqs : FactCheckResetFault(r)
  \/ \E r \in Reqs : FactCheckRereadFault(r)
  \/ \E r \in Reqs : FactCheckInsertFault(r)
  \/ \E r \in Reqs : FactCheckDebitFault(r)

SpecFaults == InitWith(SevenDays, {LedgerDb}, {FALSE}, {FALSE}) /\ [][NextFaults]_vars

(* One fact-check at a time by a newly registered user, over every text,    *)
(* every behaviour of the two providers and every deployment.               *)
PipelineDb ==
  Db( << NewUser(1, "ann@example.com", "Ann", 0) >>, << NewSession(1, 1, 0) >>, <<>> )

AllTexts == {"", "blank", "ragged", "w1", "w10", "w50", "w51", "w200", "w201",
             "w500", "w501", "w600"}

NextPipeline ==
  \/ FactCheckResolve(1, AuthHeaders, AllTexts, 1)
  \/ FactCheckCredits(1)
  \/ FactCheckSearch(1, SearchResponses)
  \/ FactCheckAi(1, AiReplies)
  \/ FactCheckInsert(1)
  \/ FactCheckDebit(1)
  \/ Respond(1)

SpecPipeline == InitWith(0, {PipelineDb}, BOOLEAN, BOOLEAN) /\ [][NextPipeline]_vars

(* Progress of the fact-check endpoint.  Each worker runs its handler to    *)
(* the end when it is scheduled.  The search returns within the timeout of  *)
(* line 147 whatever the provider does.  The call of lines 200-208 passes   *)
(* no timeout: it returns when the model has answered or the connection     *)
(* has failed, and the model is free to do neither.                        *)

ProgressTexts == {"", "w10"}

\* the search provider fails, times out, refuses or answers
ProgressResponses ==
  { Raised("Timeout"), HttpResponse(500, None),
    HttpResponse(200, Some([organic |-> <<FullResult, BareResult>>])) }

\* the model fails or answers, with JSON or with prose
ProgressReplies ==
  { AiRaised("Connection error."),
    AiContent("json", Some(JDict([likelihood_score |-> Num(8, 10), reasoning |-> "R"])), <<>>),
    AiContent("prose", None, << <<"I", " ", "c", "a", "n", "n", "o", "t">> >>) }

\* lines 168-178: fact_check_with_ai returns or raises without calling the model
FactCheckAiLocal(r) ==
  /\ ~ModelCalled(openai_client, req[r].sources)
  /\ FactCheckAi(r, ProgressReplies)

\* lines 199-244: the call of lines 200-208 has been made and the model answers
\* or fails
FactCheckAiAnswered(r) ==
  /\ ModelCalled(openai_client, req[r].sources)
  /\ FactCheckAi(r, ProgressReplies)

NextProgress ==
  \/ \E r \in Reqs : FactCheckResolve(r, AuthHeaders, ProgressTexts, MaxCharges)
  \/ \E r \in Reqs : FactCheckCredits(r)
  \/ \E r \in Reqs : FactCheckSearch(r, ProgressResponses)
  \/ \E r \in Reqs : FactCheckAiLocal(r)
  \/ \E r \in Reqs : FactCheckAiAnswered(r)
  \/ \E r \in Reqs : FactCheckInsert(r)
  \/ \E r \in Reqs : FactCheckDebit(r)
  \/ \E r \in Reqs : Respond(r)

\* every step of a handler that depends on the scheduler, on the database or
\* on a call with a timeout is taken once it stays possible
HandlerFairness ==
  \A r \in Reqs :
    /\ WF_vars(FactCheckCredits(r))
    /\ WF_vars(FactCheckSearch(r, ProgressResponses))
    /\ WF_vars(FactCheckAiLocal(r))
    /\ WF_vars(FactCheckInsert(r))
    /\ WF_vars(FactCheckDebit(r))

SpecProgress ==
  InitWith(0, {PipelineDb}, BOOLEAN, BOOLEAN) /\ [][NextProgress]_vars /\ HandlerFairness

(* ------------------------------- claims ------------------------------- *)

\* the stored user document with this id
StoredUser(user_id) == Val(FindOne(users, "id", user_id))

\* worker r has finished a request of kind op with this status
Finished(r, op, status) ==
  req[r].op = op /\ req[r].pc = "done" /\ req[r].status = status

\* C1: in every reachable state every user's stored credit balance is >= 0,
\* whatever the interleaving of concurrent fact-checks of one user and of
\* weekly resets.
C1_BalanceNeverNegative == \A i \in 1..Len(users) : users[i].credits >= 0

\* the credit check of worker r has read a balance equal to the cost of its text
ReadExactBalance(r) ==
  /\ req[r].op = "fact_check" /\ req[r].pc = "done"
  /\ req[r].status \in {200, 402}
  /\ Val(req[r].user).credits = req[r].credits_needed

\* C2: when two fact-checks of the same cost run concurrently for one user
\* whose balance equals that cost (both credit checks read it, no reset due),
\* exactly one is charged and answers 200, the other answers 402.
C2_ExactlyOneCharged ==
  \A r1, r2 \in Reqs :
    ( /\ r1 # r2
      /\ ReadExactBalance(r1) /\ ReadExactBalance(r2)
      /\ Val(req[r1].user).id = Val(req[r2].user).id
      /\ req[r1].credits_needed = req[r2].credits_needed )
    => {req[r1].status, req[r2].status} = {200, 402}

\* the price list of the specification
C3_Tier(w) ==
  IF w <= 50 THEN 1
  ELSE IF 51 <= w /\ w <= 200 THEN 2
  ELSE IF 201 <= w /\ w <= 500 THEN 3
  ELSE 5

\* C3: for a text of w whitespace-delimited words calculate_credits_needed
\* returns 1 if w <= 50, 2 if 51 <= w <= 200, 3 if 201 <= w <= 500 and 5 if
\* w > 500, and the credits_used of every record equals that value for the
\* text submitted.
C3_CostTiers ==
  /\ \A r \in Reqs :
       (req[r].op = "fact_check" /\ req[r].pc \in {"search", "ai", "insert", "debit"})
       => req[r].credits_needed = C3_Tier(WordsIn(req[r].text))
  /\ \A i \in 1..Len(fact_checks) :
       fact_checks[i].credits_used = C3_Tier(WordsIn(fact_checks[i].text))

\* a record of a 501-word text charged 5 credits
C3_Witness ==
  \E i \in 1..Len(fact_checks) :
    fact_checks[i].text = "w501" /\ fact_checks[i].credits_used = 5

\* worker r runs the credit check of line 383 in this step
C4_Checks(r) ==
  /\ req[r].op = "fact_check" /\ req[r].pc \in {"fresh", "reread"}
  /\ req'[r].pc \in {"search", "done"}

\* worker r answers 402 in this step and the step writes nothing
C4_Rejected(r) ==
  /\ req'[r].pc = "done" /\ req'[r].status = 402
  /\ req'[r].body = Some(ErrorBody("Insufficient credits"))
  /\ req'[r].fact_check = None
  /\ users' = users /\ fact_checks' = fact_checks

\* C4: a fact-check whose credit check finds the user's balance below the cost
\* of the text answers 402, creates no record and leaves the balance as it
\* is; in particular a request that was authenticated with balance 0 and is
\* checked while no reset is due answers 402.  A request that has answered
\* 402 writes nothing afterwards.
C4_InsufficientCredits ==
  [][ \A r \in Reqs :
        /\ (C4_Checks(r) /\ Val(req'[r].user).credits < C3_Tier(WordsIn(req[r].text)))
           => C4_Rejected(r)
        /\ ( /\ C4_Checks(r) /\ req[r].pc = "fresh" /\ ~ResetDue(Val(req[r].user), now)
             /\ Val(req[r].user).credits = 0 )
           => C4_Rejected(r)
        /\ (Finished(r, "fact_check", 402) /\ req'[r] # req[r])
           => (req'[r] = IdleReq /\ users' = users /\ fact_checks' = fact_checks)
    ]_vars

\* a request refused on an empty balance, with nothing written for it
C4_Witness ==
  \E r \in Reqs :
    /\ Finished(r, "fact_check", 402)
    /\ Val(req[r].user).credits = 0
    /\ StoredUser(Val(req[r].user).id).credits = 0
    /\ \A i \in 1..Len(fact_checks) : fact_checks[i].text # req[r].text

\* the token matches no session, a session whose expiry has passed, or a
\* session whose user is gone
C5_InvalidToken(token) ==
  \/ \A i \in 1..Len(sessions) : sessions[i].session_id # token
  \/ \E i \in 1..Len(sessions) :
       sessions[i].session_id = token /\ now > sessions[i].expires_at
  \/ \E i \in 1..Len(sessions) :
       /\ sessions[i].session_id = token
       /\ \A j \in 1..Len(users) : users[j].id # sessions[i].user_id

\* worker r takes a request for an authenticated operation in this step
C5_Arrives(r) ==
  req[r].pc = "idle" /\ req'[r].op \in {"fact_check", "profile", "history"}

\* C5: on fact-check, get-profile and get-history a bearer token that matches
\* no session, an expired session or a session whose user is gone is answered
\* 401; the answer carries no user data, the handler holds no user and no
\* collection changes.
C5_InvalidSession ==
  [][ \A r \in Reqs :
        ( /\ C5_Arrives(r)
          /\ req'[r].auth_header.scheme = "Bearer"
          /\ C5_InvalidToken(req'[r].auth_header.token) )
        => /\ req'[r].pc = "done" /\ req'[r].status = 401
           /\ req'[r].body = Some(ErrorBody("Invalid session"))
           /\ req'[r].user = None
           /\ users' = users /\ sessions' = sessions /\ fact_checks' = fact_checks
    ]_vars

\* a fact-check refused for an expired session beside a profile request
\* refused for a session whose user is gone
C5_Witness ==
  \E r1, r2 \in Reqs :
    /\ Finished(r1, "fact_check", 401)
    /\ req[r1].auth_header = [scheme |-> "Bearer", token |-> 1]
    /\ now > sessions[1].expires_at
    /\ Finished(r2, "profile", 401)
    /\ req[r2].auth_header = [scheme |-> "Bearer", token |-> 3]
    /\ now <= sessions[3].expires_at

\* some stored user holds the email
C6_Held(email) == \E i \in 1..Len(users) : users[i].email = email

\* the collection grew by exactly one document, at its end
C6_Grew(old, new) == Len(new) = Len(old) + 1 /\ SubSeq(new, 1, Len(old)) = old

\* C6: registering an email that no user holds succeeds: it creates a user
\* with plan "free" and 30 credits and one session for that user, and answers
\* 200 with them; registering an email that a user holds answers 400 and
\* creates neither a user nor a session.
C6_Register ==
  [][ \A r \in Reqs :
        /\ ( /\ req[r].pc = "idle" /\ req'[r].op = "register"
             /\ req'[r].email # "" /\ req'[r].name # "" )
           => /\ users' = users /\ sessions' = sessions
              /\ IF C6_Held(req'[r].email)
                 THEN /\ req'[r].pc = "done" /\ req'[r].status = 400
                      /\ req'[r].body = Some(ErrorBody("User already exists"))
                 ELSE req'[r].pc = "insert_user"
        /\ (req[r].op = "register" /\ req[r].pc = "insert_user" /\ req'[r] # req[r])
           => /\ C6_Grew(users, users') /\ sessions' = sessions
              /\ users'[Len(users')].email = req[r].email
              /\ users'[Len(users')].plan = "free"
              /\ users'[Len(users')].credits = 30
              /\ req'[r].pc = "insert_session"
              /\ req'[r].user = Some(users'[Len(users')])
        /\ (req[r].op = "register" /\ req[r].pc = "insert_session" /\ req'[r] # req[r])
           => /\ C6_Grew(sessions, sessions') /\ users' = users
              /\ sessions'[Len(sessions')].user_id = Val(req[r].user).id
              /\ req'[r].pc = "done" /\ req'[r].status = 200
              /\ Val(req'[r].body).value.user = Val(req[r].user)
              /\ Val(req'[r].body).value.session_id
                   = sessions'[Len(sessions')].session_id
        /\ (Finished(r, "register", 400) /\ req'[r] # req[r])
           => (req'[r] = IdleReq /\ users' = users /\ sessions' = sessions)
    ]_vars

\* a registration answered 200 with a free user of 30 credits, whose session
\* is stored, beside a registration of the same email answered 400
C6_Witness ==
  \E r1, r2 \in Reqs :
    /\ Finished(r1, "register", 200)
    /\ Val(req[r1].body).value.user.plan = "free"
    /\ Val(req[r1].body).value.user.credits = 30
    /\ \E i \in 1..Len(sessions) :
         /\ sessions[i].session_id = Val(req[r1].body).value.session_id
         /\ sessions[i].user_id = Val(req[r1].body).value.user.id
    /\ Finished(r2, "register", 400)
    /\ req[r2].email = req[r1].email /\ req[r2].name # ""
    /\ Len(users) = 1 /\ Len(sessions) = 1

\* C7: in every reachable state no two stored users have the same email, also
\* when two registrations of one email run concurrently.
C7_UniqueEmail ==
  \A i, j \in 1..Len(users) : i # j => users[i].email # users[j].email

\* C8: login with an email that no user holds answers 404 and creates no
\* session; login with a registered email creates one session for that user
\* whose token differs from every token stored before and whose expiry is
\* its creation time plus 7 days, and answers 200 with it.
C8_Login ==
  [][ \A r \in Reqs :
        /\ (req[r].pc = "idle" /\ req'[r].op = "login" /\ req'[r].email # "")
           => /\ sessions' = sessions /\ users' = users
              /\ IF C6_Held(req'[r].email)
                 THEN /\ req'[r].pc = "insert_session"
                      /\ Val(req'[r].user).email = req'[r].email
                 ELSE /\ req'[r].pc = "done" /\ req'[r].status = 404
                      /\ req'[r].body = Some(ErrorBody("User not found"))
        /\ (req[r].op = "login" /\ req[r].pc = "insert_session" /\ req'[r] # req[r])
           => /\ C6_Grew(sessions, sessions') /\ users' = users
              /\ sessions'[Len(sessions')].user_id = Val(req[r].user).id
              /\ sessions'[Len(sessions')].session_id \notin SessionIds
              /\ sessions'[Len(sessions')].created_at = now
              /\ sessions'[Len(sessions')].expires_at = now + 7
              /\ req'[r].pc = "done" /\ req'[r].status = 200
              /\ Val(req'[r].body).value.session_id
                   = sessions'[Len(sessions')].session_id
        /\ (Finished(r, "login", 404) /\ req'[r] # req[r])
           => (req'[r] = IdleReq /\ sessions' = sessions)
    ]_vars

\* a login answered 200 with the second session of its user, a week after the
\* first, beside a login answered 404
C8_Witness ==
  \E r1, r2 \in Reqs :
    /\ Finished(r1, "login", 200)
    /\ \E i, j \in 1..Len(sessions) :
         /\ sessions[j].session_id = Val(req[r1].body).value.session_id
         /\ sessions[i].user_id = sessions[j].user_id
         /\ sessions[i].session_id # sessions[j].session_id
         /\ sessions[i].expires_at = 7 /\ sessions[j].expires_at = 14
    /\ Finished(r2, "login", 404)

\* the provider failed: the call raised, or the status is not 200
C9_SearchFailed(response) ==
  /\ ~IsNone(response)
  /\ IF Val(response).kind = "raise" THEN TRUE ELSE Val(response).status_code # 200

\* C9: on any search failure (network error, timeout, non-success status)
\* search_web returns an empty sequence and the fact-check still answers 200
\* with an empty sources list, with or without an AI credential.
C9_SearchFailureTolerated ==
  \A r \in Reqs :
    ( /\ req[r].op = "fact_check" /\ req[r].pc \in {"ai", "insert", "debit", "done"}
      /\ C9_SearchFailed(req[r].response) )
    => /\ req[r].sources = Some(<<>>)
       /\ req[r].pc = "done" =>
            /\ req[r].status = 200
            /\ Val(req[r].body).value.sources = Some(<<>>)

\* C10: fact_check_with_ai never raises: for every value search_web returned
\* as sources and every outcome of the model call it returns a result with a
\* likelihood_score and a reasoning, and on a transport error the score is 0.5.
C10_AiNeverRaises ==
  \A r \in Reqs :
    (req[r].op = "fact_check" /\ req[r].pc = "ai")
    => \A reply \in AiReplies :
         /\ ~Raises(fact_check_with_ai(openai_client, req[r].sources, reply))
         /\ DOMAIN fact_check_with_ai(openai_client, req[r].sources, reply).ret
              = {"likelihood_score", "reasoning"}
         /\ (openai_client /\ reply.kind = "raise")
            => fact_check_with_ai(openai_client, req[r].sources, reply).ret.likelihood_score
                 = Half

\* the result of the degraded mode
C11_Unavailable ==
  AiResult(Float(1, 2),
           Reasoning("AI fact-checking unavailable - OpenAI API key not configured", ""))

\* C11: with no AI credential every successful fact-check stores a record with
\* score 0.5 and the fixed 'unavailable' reasoning, the model is never called,
\* and the request is charged the full cost of its text.
C11_DegradedMode ==
  ~openai_client =>
    /\ \A i \in 1..Len(fact_checks) :
         /\ fact_checks[i].likelihood_score = C11_Unavailable.likelihood_score
         /\ fact_checks[i].reasoning = C11_Unavailable.reasoning
    /\ \A r \in Reqs : req[r].reply = None
    /\ \A r \in Reqs :
         Finished(r, "fact_check", 200) =>
           /\ Val(req[r].body).value.credits_used = C3_Tier(WordsIn(req[r].text))
           /\ StoredUser(Val(req[r].user).id).credits
                = Val(req[r].user).credits - C3_Tier(WordsIn(req[r].text))

\* a 600-word text answered 200 without an AI credential: score 0.5, 5 credits
C11_Witness ==
  /\ ~openai_client
  /\ \E r \in Reqs :
       /\ Finished(r, "fact_check", 200) /\ req[r].text = "w600"
       /\ Val(req[r].body).value.likelihood_score = Float(1, 2)
       /\ Val(req[r].body).value.credits_used = 5
       /\ users[1].credits = 25

\* the record of worker r is stored
C12_Stored(r) ==
  \E k \in 1..Len(fact_checks) : fact_checks[k] = Val(req[r].fact_check)

\* C12: within a fact-check the balance is debited only after the record has
\* been persisted: every step that lowers a user's balance is the debit of a
\* request whose record is already stored, belongs to that user and has
\* credits_used equal to the amount debited.
C12_DebitAfterRecord ==
  [][ \A i \in 1..Len(users) :
        users'[i].credits < users[i].credits =>
          \E r \in Reqs :
            /\ req[r].op = "fact_check" /\ req[r].pc = "debit" /\ req'[r].pc = "done"
            /\ C12_Stored(r)
            /\ Val(req[r].fact_check).user_id = users[i].id
            /\ Val(req[r].fact_check).credits_used = users[i].credits - users'[i].credits
            /\ fact_checks' = fact_checks
    ]_vars

\* a request has been debited 5 credits for its stored record
C12_Witness ==
  \E r \in Reqs :
    /\ Finished(r, "fact_check", 200)
    /\ \E k \in 1..Len(fact_checks) :
         /\ fact_checks[k] = Val(req[r].body).value
         /\ fact_checks[k].credits_used = 5
    /\ users[1].credits = 0

\* C13: a successful fact-check that runs alone for its user, with no reset
\* due, lowers the stored balance by exactly the credits_used of the record it
\* returns; a new user who submits a 10-word text gets credits_used 1 and ends
\* with balance 29.
C13_SoloCharge ==
  \A r \in Reqs :
    Finished(r, "fact_check", 200) =>
      /\ StoredUser(Val(req[r].user).id).credits
           = Val(req[r].user).credits - Val(req[r].body).value.credits_used
      /\ req[r].text = "w10" =>
           /\ Val(req[r].body).value.credits_used = 1
           /\ StoredUser(Val(req[r].user).id).credits = 29

\* the 10-word text of a new user has been answered 200
C13_Witness ==
  \E r \in Reqs :
    /\ Finished(r, "fact_check", 200) /\ req[r].text = "w10"
    /\ Val(req[r].user).credits = 30
    /\ users[1].credits = 29

\* the weekly allotment of a plan name, 30 for a name that is no plan
C14_Allotment(plan) ==
  IF plan \in DOMAIN PLANS THEN PLANS[plan].weekly_credits ELSE 30

\* C14: at the start of a fact-check, if now > the credit-reset date of the
\* user the handler holds, the stored balance becomes the weekly allotment of
\* the user's plan (30 for an unknown plan name) and the stored reset date
\* becomes now + 7 days, which is after now, and the handler goes on with the
\* refreshed user; if now <= that reset date this step changes neither.
C14_WeeklyReset ==
  [][ \A r \in Reqs :
        /\ (req[r].op = "fact_check" /\ req[r].pc = "fresh" /\ req'[r] # req[r])
           => IF now > Val(req[r].user).credits_reset_date
              THEN /\ StoredUser(Val(req[r].user).id)'.credits
                        = C14_Allotment(StoredUser(Val(req[r].user).id).plan)
                   /\ StoredUser(Val(req[r].user).id)'.credits_reset_date = now + 7
                   /\ StoredUser(Val(req[r].user).id)'.credits_reset_date > now
                   /\ req'[r].pc = "reread"
              ELSE users' = users /\ req'[r].pc \in {"search", "done"}
        /\ (req[r].op = "fact_check" /\ req[r].pc = "reread" /\ req'[r] # req[r])
           => /\ users' = users
              /\ req'[r].user = Some(StoredUser(Val(req[r].user).id))
    ]_vars

\* on day 14 a request has reset a user of the unknown plan "gold" from 5 to
\* 30 credits, until day 21
C14_Witness ==
  /\ now = 14
  /\ users[1].plan = "gold" /\ users[1].credits = 30
  /\ users[1].credits_reset_date = 21
  /\ \E r \in Reqs : req[r].op = "fact_check" /\ req[r].pc = "reread"

\* worker r has finished a fact-check that passed the session check and the
\* credit check
C15_PassedChecks(r) ==
  /\ req[r].op = "fact_check" /\ req[r].pc = "done"
  /\ ~IsNone(req[r].user)
  /\ req[r].credits_needed > 0
  /\ Val(req[r].user).credits >= req[r].credits_needed

\* C15: a fact-check that ends with 401 or 402 has called neither the search
\* provider nor the AI model, and a request that has passed the session and
\* credit checks does not end with an error, whatever the search and the AI
\* call do.
C15_OnlyChecksAbort ==
  \A r \in Reqs :
    /\ (req[r].op = "fact_check" /\ req[r].pc = "done" /\ req[r].status \in {401, 402})
       => (req[r].response = None /\ req[r].reply = None)
    /\ C15_PassedChecks(r) => req[r].status = 200

\* C16: the history operation returns only records of the calling user, at
\* most 20 of them, and each returned record has a creation time strictly
\* greater than that of the record after it, whatever records are stored,
\* records with equal creation times included.
C16_History ==
  \A r \in Reqs :
    Finished(r, "history", 200) =>
      /\ Len(Val(req[r].body).value) <= 20
      /\ \A k \in 1..Len(Val(req[r].body).value) :
           Val(req[r].body).value[k].user_id = Val(req[r].user).id
      /\ \A k \in 1..(Len(Val(req[r].body).value) - 1) :
           Val(req[r].body).value[k].created_at
             > Val(req[r].body).value[k + 1].created_at

\* C17: every persisted record has a likelihood score within [0, 1], whatever
\* the AI model replies (structured, unstructured or an error).
C17_ScoreInUnitInterval ==
  \A i \in 1..Len(fact_checks) :
    /\ fact_checks[i].likelihood_score.den > 0
    /\ 0 <= fact_checks[i].likelihood_score.num
    /\ fact_checks[i].likelihood_score.num <= fact_checks[i].likelihood_score.den

\* C18: the sequence returned by search_web, and so the sources of every
\* stored record, has at most 5 elements, whatever number of organic results
\* the provider returns.
C18_AtMostFiveSources ==
  /\ \A r \in Reqs :
       (req[r].op = "fact_check" /\ ~IsNone(req[r].sources))
       => Len(Val(req[r].sources)) <= 5
  /\ \A i \in 1..Len(fact_checks) :
       ~IsNone(fact_checks[i].sources) => Len(Val(fact_checks[i].sources)) <= 5

\* C19: a persistence failure inside the credit ledger or the session store
\* is never swallowed: when the session lookup or the weekly-reset write
\* fails, the request ends at once with an error status (500), it is neither
\* reported as an invalid session nor continued with the balance it had.
C19_FaultsSurface ==
  \A r \in Reqs :
    ~IsNone(req[r].db_error) => (req[r].pc = "done" /\ req[r].status = 500)

\* C20: every internal fault in an endpoint is answered 500 with a fixed
\* generic message that does not carry the text of the exception.
C20_GenericMessage ==
  \A r \in Reqs :
    (req[r].pc = "done" /\ req[r].status = 500) =>
      /\ Val(req[r].body).kind = "error"
      /\ Val(req[r].body).value \notin DbErrors
      /\ \A r2 \in Reqs :
           (req[r2].pc = "done" /\ req[r2].status = 500) => req[r2].body = req[r].body

\* worker r takes a step of get-profile or get-history
C21_Reads(r) ==
  /\ req'[r] # req[r]
  /\ req[r].op \in {"profile", "history"} \/ req'[r].op \in {"profile", "history"}

\* worker r resolves the token of a fact-check, get-profile or get-history
C21_Resolves(r) ==
  /\ req[r].pc = "idle"
  /\ req'[r].op \in {"fact_check", "profile", "history"}
  /\ req'[r].auth_header.scheme = "Bearer"

\* C21: sessions are read-only after creation: every step keeps every stored
\* session as it is (sessions are only appended), resolving a token changes
\* no session, and a step of get-profile or get-history changes no user and
\* no record either.
C21_SessionsReadOnly ==
  [][ /\ Len(sessions') >= Len(sessions)
      /\ SubSeq(sessions', 1, Len(sessions)) = sessions
      /\ \A r \in Reqs : C21_Resolves(r) => sessions' = sessions
      /\ \A r \in Reqs :
           C21_Reads(r) =>
             (sessions' = sessions /\ users' = users /\ fact_checks' = fact_checks)
    ]_vars

\* the session of the registration has expired and is still stored as it was
\* created, a login has added a second one, and a profile request with the
\* old token has been refused
C21_Witness ==
  /\ Len(sessions) = 2
  /\ sessions[1] = NewSession(sessions[1].session_id, sessions[1].user_id, 0)
  /\ now > sessions[1].expires_at /\ now <= sessions[2].expires_at
  /\ \E r1, r2 \in Reqs :
       /\ Finished(r1, "login", 200)
       /\ Finished(r2, "profile", 401)
       /\ req[r2].auth_header.token = sessions[1].session_id

\* worker r holds a fact-check request that has not been answered
C22_Pending(r) == req[r].op = "fact_check" /\ req[r].pc \notin {"idle", "done"}

C23_Resets(r) ==
  /\ req[r].op = "fact_check" /\ req[r].pc = "fresh"
  /\ req'[r].pc = "reread"
  /\ users' # users

\* C23: when several fact-check requests of one user observe the weekly reset
\* as due and run concurrently, a reset written after the first reset of that
\* period (the stored reset date is already ahead of the clock) leaves the
\* balance as the debits applied since then have made it.
C23_NoDebitErased ==
  [][ \A r \in Reqs :
        C23_Resets(r) =>
          \A i \in 1..Len(users) :
            (users[i].id = Val(req[r].user).id /\ ~ResetDue(users[i], now))
              => users'[i].credits = users[i].credits
    ]_vars

\* the instant of the last grant to the user: registration and the weekly
\* reset both set credits_reset_date seven days ahead
C24_LastGrant(user) == user.credits_reset_date - SevenDays

\* what the last grant gave: the allotment of the plan, or the 30 credits of
\* registration when the account was created at that instant
C24_Granted(user) ==
  {PlanOf(user.plan).weekly_credits}
    \cup (IF user.created_at = C24_LastGrant(user) THEN {InitialCredits} ELSE {})

\* the sum of credits_used over the records at the indices idx
RECURSIVE C24_Used(_)
C24_Used(idx) ==
  IF idx = {} THEN 0
  ELSE LET k == CHOOSE j \in idx : TRUE
       IN  fact_checks[k].credits_used + C24_Used(idx \ {k})

\* the user's records created after the instant t, and those created at t
C24_After(user, t) ==
  {k \in 1..Len(fact_checks) :
     fact_checks[k].user_id = user.id /\ fact_checks[k].created_at > t}
C24_At(user, t) ==
  {k \in 1..Len(fact_checks) :
     fact_checks[k].user_id = user.id /\ fact_checks[k].created_at = t}

\* the balance is what the last grant gave minus the records created since;
\* of the records the clock dates at the instant of the grant any may have
\* come before it
C24_Conserved(user) ==
  \E granted \in C24_Granted(user),
     since \in SUBSET C24_At(user, C24_LastGrant(user)) :
       user.credits =
         granted - C24_Used(C24_After(user, C24_LastGrant(user)) \cup since)

\* C24: credit conservation: in every state where no request is in flight,
\* each user's balance equals the allotment of the last reset (or the 30 of
\* registration) minus the sum of credits_used over the user's records
\* created since then.
C24_CreditConservation ==
  (\A r \in Reqs : req[r].pc = "idle")
    => \A i \in 1..Len(users) : C24_Conserved(users[i])

====
